---- MODULE Spec2Model ----
(***************************************************************************)
(* Model of the task-manager REST API: the user and task collections, the  *)
(* bearer-token guard, and one action per route of routers/user.js and     *)
(* routers/task.js.  Each request is handled whole (guard, handler, saves).*)
(* A route is an operator from the request to its Result (the response and *)
(* the collections as the handler leaves them); the route's action applies *)
(* that Result to the state.  Spec is the whole API; the other            *)
(* specifications are the same actions taken a group of routes at a time.  *)
(* Generated ObjectIds are integers handed out by a counter and never      *)
(* handed out twice; a registration body may carry the _id of an earlier   *)
(* user.  The JWT library, bcrypt and the Mongoose document layer are      *)
(* modelled by what the handlers rely on.                                  *)
(***************************************************************************)
EXTENDS Integers, Sequences, FiniteSets, TLC

\* ------------------------------------------------------------------ bounds
MaxUsers == 2       \* user ObjectIds ever handed out
MaxTasks == 2       \* task ObjectIds ever handed out
MaxTime == 1        \* clock range, in seconds (the resolution of a JWT's iat)
MaxTokens == 2      \* longest token list a login may still extend
MaxInflight == 2    \* requests at once between their read of a user and their save

VARIABLES
    users,          \* the User collection: _id -> stored document
    tasks,          \* the Task collection: _id -> stored document
    now,            \* wall clock, seconds
    nextUserId,     \* next fresh user ObjectId
    nextTaskId,     \* next fresh task ObjectId
    issued,         \* history: {[token, user]} every token handed out and to whom
    creator,        \* history: task _id -> identity attached to the POST /tasks that made it
    plain,          \* history: user _id -> plaintext password last accepted for that user
    registered,     \* history: user _id -> the body of the POST /users that made it
    loggedOutAll,   \* history: tokens issued to a user before a logoutAll of that user
    deletedTokens,  \* history: tokens issued to a user before a DELETE /users/me of that user
    inflight        \* the requests that have read their user and not yet saved it

vars == <<users, tasks, now, nextUserId, nextTaskId, issued, creator, plain, registered,
          loggedOutAll, deletedTokens, inflight>>

\* ------------------------------------------------------ strings (JS String)
RECURSIVE Trim(_)
Trim(s) ==
    IF Len(s) > 0 /\ SubSeq(s, 1, 1) = " " THEN Trim(SubSeq(s, 2, Len(s)))
    ELSE IF Len(s) > 0 /\ SubSeq(s, Len(s), Len(s)) = " " THEN Trim(SubSeq(s, 1, Len(s) - 1))
    ELSE s

LowerChar(c) ==
    CASE c = "A" -> "a" [] c = "B" -> "b" [] c = "P" -> "p" [] c = "X" -> "x"
      [] OTHER -> c

RECURSIVE ToLowerCase(_)
ToLowerCase(s) ==
    IF Len(s) = 0 THEN s
    ELSE LowerChar(SubSeq(s, 1, 1)) \o ToLowerCase(SubSeq(s, 2, Len(s)))

Includes(s, sub) ==
    \E i \in 1..(Len(s) - Len(sub) + 1) : SubSeq(s, i, i + Len(sub) - 1) = sub

\* validator.isEmail, reduced to: one "@", something before it, a dot after it
IsEmail(s) ==
    /\ Cardinality({i \in 1..Len(s) : SubSeq(s, i, i) = "@"}) = 1
    /\ SubSeq(s, 1, 1) # "@"
    /\ ~Includes(s, " ")
    /\ \E i \in 1..Len(s) : \E j \in (i + 2)..(Len(s) - 1) :
          SubSeq(s, i, i) = "@" /\ SubSeq(s, j, j) = "."

Range(seq) == {seq[i] : i \in 1..Len(seq)}

Get(body, key, default) == IF key \in DOMAIN body THEN body[key] ELSE default

\* ------------------------------------------------------------------ bcrypt
BcryptPrefix == "$2a$08$"
BcryptHash(p) == BcryptPrefix \o p
BcryptCompare(p, hash) == hash = BcryptHash(p)

\* --------------------------------------------------------------------- JWT
JWT_SECRET == "JWT_SECRET"
JwtSign(id, secret) == [_id |-> id, iat |-> now, sig |-> secret]
JwtVerify(token, secret) ==
    IF token.sig = secret THEN [ok |-> TRUE, _id |-> token._id]
    ELSE [ok |-> FALSE, _id |-> 0,
          error |-> IF token.sig = "" THEN "jwt malformed" ELSE "invalid signature"]

\* ------------------------------------------------------------- User schema
NoAvatar == "none"
PasswordMinLength == 7
UserPaths == {"name", "email", "password", "age"}

\* schema setters: trim / lowercase, run when a path is assigned and on queries
UserSetter(path, v) ==
    CASE path = "name" -> Trim(v)
      [] path = "email" -> ToLowerCase(Trim(v))
      [] path = "password" -> Trim(v)
      [] OTHER -> v

\* schema validators of one path
UserPathValid(path, v) ==
    CASE path = "name" -> v # ""
      [] path = "email" -> v # "" /\ IsEmail(v)
      [] path = "password" ->
            /\ v # ""
            /\ Len(v) >= PasswordMinLength
            /\ ~Includes(ToLowerCase(v), "password")
      [] path = "age" -> ~(v < 0)
      [] OTHER -> TRUE

\* document[path] = value on a hydrated document: setter, then dirty tracking
UserSet(doc, path, v) ==
    IF path \notin (UserPaths \cup {"tokens", "avatar"}) THEN doc
    ELSE LET w == UserSetter(path, v) IN
         [doc EXCEPT ![path] = w,
                     !.modified = IF w # doc[path] THEN @ \cup {path} ELSE @]

\* new User(req.body)
NewUser(body, id) ==
    [_id |-> Get(body, "_id", id),
     name |-> UserSetter("name", Get(body, "name", "")),
     email |-> UserSetter("email", Get(body, "email", "")),
     password |-> UserSetter("password", Get(body, "password", "")),
     age |-> Get(body, "age", 0),
     tokens |-> Get(body, "tokens", <<>>),
     avatar |-> NoAvatar,
     modified |-> UserPaths,
     isNew |-> TRUE]

\* a document loaded from the collection
Hydrate(id) ==
    [_id |-> id,
     name |-> users[id].name,
     email |-> users[id].email,
     password |-> users[id].password,
     age |-> users[id].age,
     tokens |-> users[id].tokens,
     avatar |-> users[id].avatar,
     modified |-> {},
     isNew |-> FALSE]

Stored(doc) ==
    [name |-> doc.name, email |-> doc.email, password |-> doc.password,
     age |-> doc.age, tokens |-> doc.tokens, avatar |-> doc.avatar]

\* user.toObject(): the document's paths
toObject(doc) ==
    [_id |-> doc._id, name |-> doc.name, email |-> doc.email, password |-> doc.password,
     age |-> doc.age, tokens |-> doc.tokens, avatar |-> doc.avatar]

\* a toJSON that deletes nothing
toJSONWhole(doc) == toObject(doc)

\* userSchema.methods.toJSON: delete userObject.password, .tokens, .avatar
toJSON(doc) ==
    LET userObject == toObject(doc) IN
    [path \in DOMAIN userObject \ {"password", "tokens", "avatar"} |-> userObject[path]]

\* a save that runs no validator
UserValidAlways(doc) == TRUE

\* document.validate() on save: the validators of the modified paths
UserValid(doc) ==
    \A p \in (doc.modified \cap UserPaths) : UserPathValid(p, doc[p])

\* a collection without the unique index
EmailFreeAlways(doc) == TRUE

\* the unique index on email
EmailFree(doc) ==
    \A u \in DOMAIN users : u # doc._id => users[u].email # doc.email

\* userSchema.pre('save')
preSave(doc) ==
    IF "password" \in doc.modified
    THEN [doc EXCEPT !.password = BcryptHash(doc.password)]
    ELSE doc

\* document.save(): validate, pre-save hook, write; the result carries the
\* document as it is afterwards
UserSave(doc) ==
    IF ~UserValid(doc) THEN [ok |-> FALSE, doc |-> doc]
    ELSE IF (doc.isNew /\ doc._id \in DOMAIN users) \/ ~EmailFree(doc) THEN [ok |-> FALSE, doc |-> preSave(doc)]
    ELSE [ok |-> TRUE, doc |-> [preSave(doc) EXCEPT !.modified = {}, !.isNew = FALSE]]

\* a generateAuthToken that embeds a fixed _id instead of the user's
generateAuthTokenFixedId(doc) ==
    LET token == JwtSign(1, JWT_SECRET)
        saved == UserSave([doc EXCEPT !.tokens = Append(@, token),
                                      !.modified = @ \cup {"tokens"}])
    IN  [ok |-> saved.ok, doc |-> saved.doc, token |-> token]

\* userSchema.methods.generateAuthToken
generateAuthToken(doc) ==
    LET token == JwtSign(doc._id, JWT_SECRET)
        saved == UserSave([doc EXCEPT !.tokens = Append(@, token),
                                      !.modified = @ \cup {"tokens"}])
    IN  [ok |-> saved.ok, doc |-> saved.doc, token |-> token]

\* a findByCredentials that never compares the password
findByCredentialsByEmail(email, password) ==
    LET found == {u \in DOMAIN users : users[u].email = UserSetter("email", email)} IN
    IF found = {} THEN [ok |-> FALSE, user |-> 0]
    ELSE [ok |-> TRUE, user |-> CHOOSE x \in found : TRUE]

\* userSchema.statics.findByCredentials
findByCredentials(email, password) ==
    LET found == {u \in DOMAIN users : users[u].email = UserSetter("email", email)} IN
    IF found = {} THEN [ok |-> FALSE, user |-> 0]
    ELSE LET u == CHOOSE x \in found : TRUE IN
         IF BcryptCompare(password, users[u].password)
         THEN [ok |-> TRUE, user |-> u]
         ELSE [ok |-> FALSE, user |-> 0]

\* ---------------------------------------------------- authentication guard
NoHeader == [present |-> FALSE, scheme |-> "", token |-> [_id |-> 0, iat |-> 0, sig |-> ""]]
Bearer(token) == [present |-> TRUE, scheme |-> "Bearer ", token |-> token]
ForgedToken == [_id |-> 1, iat |-> 0, sig |-> "forged"]
MalformedToken == [_id |-> 0, iat |-> 0, sig |-> ""]

\* headers a client may send: none, a token it was given, or one it made up
Headers ==
    {NoHeader} \cup {Bearer(i.token) : i \in issued}
               \cup {Bearer(ForgedToken), Bearer(MalformedToken)}

\* an error thrown inside the guard's try block
AuthFail(error) == [ok |-> FALSE, user |-> 0, token |-> MalformedToken, error |-> error]

\* the guard, run against a state of the User collection
authOn(collection, header) ==
    IF ~header.present THEN AuthFail("TypeError")
    ELSE LET token == header.token
             decoded == JwtVerify(token, JWT_SECRET)
         IN  IF ~decoded.ok THEN AuthFail(decoded.error)
             ELSE LET found == {u \in DOMAIN collection :
                                   u = decoded._id /\ token \in Range(collection[u].tokens)}
                  IN  IF found = {} THEN AuthFail("Error")
                      ELSE [ok |-> TRUE, user |-> CHOOSE u \in found : TRUE, token |-> token]

\* a guard that checks the signature and the user, not the token list
authSignatureOnly(header) ==
    LET decoded == JwtVerify(header.token, JWT_SECRET) IN
    IF header.present /\ decoded.ok /\ decoded._id \in DOMAIN users
    THEN [ok |-> TRUE, user |-> decoded._id, token |-> header.token]
    ELSE AuthFail("Error")

auth(header) == authOn(users, header)


\* --------------------------------------------------------------- responses
EmptyBody == [empty |-> TRUE]
\* a response sent by a handler; user is the identity the guard attached
\* (0 on a route without the guard)
Response(status, body, user) == [status |-> status, body |-> body, user |-> user, ran |-> TRUE]
\* the response of the guard itself: the handler never ran
Unauthorized ==
    [status |-> 401, body |-> [error |-> "Please authenticate."], user |-> 0, ran |-> FALSE]

\* what handling a request comes to: the response, and the two collections as
\* the handler leaves them
Result(response, userDocs, taskDocs) ==
    [res |-> response, users |-> userDocs, tasks |-> taskDocs]
\* a catch block that sends the error it caught
RejectedTelling(error) ==
    Result([Unauthorized EXCEPT !.body = [error |-> error]], users, tasks)

\* the guard's catch block: whatever was thrown, the same 401, and no next()
Rejected(error) == Result(Unauthorized, users, tasks)

\* ------------------------------------------------------------------ inputs
RegisterBodies ==
    {[name |-> "Ann", email |-> "a@x.com", password |-> "longenough1"],
     [name |-> " Ann", email |-> " B@x.com", password |-> "secret77 "],
     [name |-> "Ann", email |-> "a@x.com", password |-> "longenough1",
      tokens |-> <<ForgedToken>>],
     [name |-> "Ann", email |-> "c@x.com", password |-> "short"],
     [name |-> "Ann", email |-> "c@x.com", password |-> "myPassword1"],
     [name |-> "Ann", email |-> "nope", password |-> "longenough1"]}

\* registration bodies that name the _id of an earlier user and carry a token
\* that user was given
RegisterAgainBodies ==
    {[_id |-> i.user, name |-> "Ann", email |-> "a@x.com", password |-> "longenough1",
      tokens |-> <<i.token>>] : i \in issued}

LoginBodies ==
    [email : {"a@x.com", "B@x.com"},
     password : {"longenough1", "secret77", "secret77 "}]

UserPatchBodies ==
    {[name |-> "Bob"],
     [password |-> "secret77 "],
     [name |-> "Bob", tokens |-> <<>>],
     [name |-> "Bob", age |-> -1],
     [name |-> "Bob", password |-> "short"],
     [name |-> "Bob", password |-> "myPassword1"],
     [name |-> "Bob", email |-> "not-an-email"],
     [email |-> " B@x.com"]}

AvatarFiles == {"me.png", "cv.pdf"}

TaskCreateBodies ==
    {[description |-> "buy milk"], [completed |-> TRUE]}
        \cup {[description |-> " buy milk", owner |-> o] : o \in {1, MaxUsers}}

TaskPatchBodies ==
    {[completed |-> TRUE], [description |-> "walk dog "], [description |-> " ", completed |-> TRUE]}
        \cup {[completed |-> TRUE, owner |-> o] : o \in {1, MaxUsers}}

\* query strings of GET /tasks; "" is an absent parameter
TaskQueries ==
    [completed : {"", "true", "false"},
     limit : {"", "1"},
     skip : {"", "1"},
     sortBy : {"", "createdAt_desc"}]

\* ---------------------------------------------------------- the user router
\* router.post('/users')
postUsers(body) ==
    LET user == NewUser(body, nextUserId)
        gen == generateAuthToken(user)
        second == UserSave(gen.doc)
    IN  IF gen.ok /\ second.ok
        THEN Result(Response(201, [user |-> toJSON(second.doc), token |-> gen.token], 0),
                    (user._id :> Stored(second.doc)) @@ users, tasks)
        ELSE Result(Response(400, [error |-> "ValidationError"], 0), users, tasks)

\* a login that ends every other session of the user
postUsersLoginSingleSession(body) ==
    LET cred == findByCredentials(body.email, body.password) IN
    IF cred.ok
    THEN LET token == JwtSign(cred.user, JWT_SECRET) IN
         Result(Response(200, [user |-> toJSON(Hydrate(cred.user)), token |-> token], 0),
                [users EXCEPT ![cred.user].tokens = <<token>>], tasks)
    ELSE Result(Response(400, EmptyBody, 0), users, tasks)

\* router.post('/users/login')
postUsersLogin(body) ==
    LET cred == findByCredentials(body.email, body.password) IN
    IF cred.ok
    THEN LET gen == generateAuthToken(Hydrate(cred.user)) IN
         Result(Response(200, [user |-> toJSON(gen.doc), token |-> gen.token], 0),
                [users EXCEPT ![cred.user] = Stored(gen.doc)], tasks)
    ELSE Result(Response(400, EmptyBody, 0), users, tasks)

\* a filter that keeps nothing
withoutAnyToken(tokens, reqToken) == <<>>

\* req.user.tokens.filter((token) => token.token !== req.token)
withoutToken(tokens, reqToken) == SelectSeq(tokens, LAMBDA token : token # reqToken)

\* router.post('/users/logout')
postUsersLogout(header) ==
    LET a == auth(header) IN
    IF ~a.ok THEN Rejected(a.error)
    ELSE LET user == Hydrate(a.user)
             kept == withoutToken(user.tokens, a.token)
             saved == UserSave(UserSet(user, "tokens", kept))
         IN  Result(Response(200, EmptyBody, a.user),
                    [users EXCEPT ![a.user] = Stored(saved.doc)], tasks)

\* router.post('/users/logoutAll')
postUsersLogoutAll(header) ==
    LET a == auth(header) IN
    IF ~a.ok THEN Rejected(a.error)
    ELSE LET saved == UserSave(UserSet(Hydrate(a.user), "tokens", <<>>)) IN
         Result(Response(200, EmptyBody, a.user),
                [users EXCEPT ![a.user] = Stored(saved.doc)], tasks)

\* router.get('/users/me')
getUsersMe(header) ==
    LET a == auth(header) IN
    IF ~a.ok THEN Rejected(a.error)
    ELSE Result(Response(200, [user |-> toJSON(Hydrate(a.user))], a.user), users, tasks)

\* an allow-list check that lets every field through
isValidOperationAlways(updates, allowedUpdates) == TRUE

\* updates.every((update) => allowedUpdates.includes(update))
isValidOperation(updates, allowedUpdates) == \A update \in updates : update \in allowedUpdates

\* an allow-list that lets the token list through
UserAllowedUpdatesWithTokens == {"name", "email", "password", "age", "tokens"}

\* const allowedUpdates = ['name', 'email', 'password', 'age']
UserAllowedUpdates == {"name", "email", "password", "age"}

RECURSIVE UserAssign(_, _, _)
\* updates.forEach((update) => req.user[update] = req.body[update])
UserAssign(doc, body, updates) ==
    IF updates = {} THEN doc
    ELSE LET update == CHOOSE u \in updates : TRUE IN
         UserAssign(UserSet(doc, update, body[update]), body, updates \ {update})

\* router.patch('/users/me')
patchUsersMe(header, body) ==
    LET a == auth(header)
        updates == DOMAIN body
    IN  IF ~a.ok THEN Rejected(a.error)
        ELSE IF ~isValidOperation(updates, UserAllowedUpdates)
        THEN Result(Response(400, [error |-> "Invalid updates!"], a.user), users, tasks)
        ELSE LET saved == UserSave(UserAssign(Hydrate(a.user), body, updates)) IN
             IF saved.ok
             THEN Result(Response(200, [user |-> toJSON(saved.doc)], a.user),
                         [users EXCEPT ![a.user] = Stored(saved.doc)], tasks)
             ELSE Result(Response(400, [error |-> "ValidationError"], a.user), users, tasks)

Restrict(f, S) == [x \in S |-> f[x]]

\* a remove hook that deletes no task
preRemoveNothing(id) == tasks

\* userSchema.pre('remove'): Task.deleteMany({ owner: user._id })
preRemove(id) == Restrict(tasks, {t \in DOMAIN tasks : tasks[t].owner # id})

\* what becomes of Task.deleteMany in the remove hook: it succeeds, or it
\* rejects after the tasks in done have been deleted
NoFault == [fails |-> FALSE, done |-> {}]
Faults == {NoFault} \cup {[fails |-> TRUE, done |-> d] : d \in SUBSET DOMAIN tasks}

\* a remove that deletes the user although its hook has thrown
removeDespiteHook(id, fault) ==
    [ok |-> TRUE,
     users |-> Restrict(users, DOMAIN users \ {id}),
     tasks |-> IF fault.fails
               THEN Restrict(tasks, {t \in DOMAIN tasks : t \notin fault.done \/ tasks[t].owner # id})
               ELSE preRemove(id)]

\* req.user.remove(): the pre('remove') hook, then the delete of the user; a
\* hook that throws makes remove() throw before the user is deleted
remove(id, fault) ==
    IF fault.fails
    THEN [ok |-> FALSE,
          users |-> users,
          tasks |-> Restrict(tasks, {t \in DOMAIN tasks : t \notin fault.done \/ tasks[t].owner # id})]
    ELSE [ok |-> TRUE,
          users |-> Restrict(users, DOMAIN users \ {id}),
          tasks |-> preRemove(id)]

\* router.delete('/users/me'), given what becomes of the cascade
deleteUsersMeOn(header, fault) ==
    LET a == auth(header) IN
    IF ~a.ok THEN Rejected(a.error)
    ELSE LET removed == remove(a.user, fault) IN
         IF removed.ok
         THEN Result(Response(200, [user |-> toJSON(Hydrate(a.user))], a.user),
                     removed.users, removed.tasks)
         ELSE Result(Response(500, EmptyBody, a.user), removed.users, removed.tasks)

\* router.delete('/users/me') when the cascade succeeds
deleteUsersMe(header) == deleteUsersMeOn(header, NoFault)

\* multer fileFilter of the avatar upload
fileFilter(originalname) ==
    \E ext \in {".jpg", ".jpeg", ".png"} :
        /\ Len(originalname) >= Len(ext)
        /\ SubSeq(originalname, Len(originalname) - Len(ext) + 1, Len(originalname)) = ext

\* router.post('/users/me/avatar')
postUsersMeAvatar(header, originalname) ==
    LET a == auth(header) IN
    IF ~a.ok THEN Rejected(a.error)
    ELSE IF ~fileFilter(originalname)
    THEN Result(Response(400, [error |-> "Please upload a supported image file type."], a.user),
                users, tasks)
    ELSE LET saved == UserSave(UserSet(Hydrate(a.user), "avatar", "png")) IN
         Result(Response(200, EmptyBody, a.user),
                [users EXCEPT ![a.user] = Stored(saved.doc)], tasks)

\* router.delete('/users/me/avatar')
deleteUsersMeAvatar(header) ==
    LET a == auth(header) IN
    IF ~a.ok THEN Rejected(a.error)
    ELSE LET saved == UserSave(UserSet(Hydrate(a.user), "avatar", NoAvatar)) IN
         Result(Response(200, EmptyBody, a.user),
                [users EXCEPT ![a.user] = Stored(saved.doc)], tasks)

\* router.get('/users/:id/avatar')
getUsersAvatar(id) ==
    IF id \notin DOMAIN users \/ users[id].avatar = NoAvatar
    THEN Result(Response(404, EmptyBody, 0), users, tasks)
    ELSE Result(Response(200, [avatar |-> users[id].avatar], 0), users, tasks)

\* ------------------------------------------------------------- Task schema
TaskPaths == {"description", "completed", "owner"}

TaskSetter(path, v) == IF path = "description" THEN Trim(v) ELSE v

\* { owner: req.user._id, ...req.body }: the body's owner wins
WithOwnerFromBody(body, id) == body @@ ("owner" :> id)

\* { ...req.body, owner: req.user._id }
WithOwner(body, id) == ("owner" :> id) @@ body

\* new Task(fields)
NewTask(fields, id) ==
    [_id |-> id,
     description |-> TaskSetter("description", Get(fields, "description", "")),
     completed |-> Get(fields, "completed", FALSE),
     owner |-> Get(fields, "owner", 0)]

TaskDoc(id) ==
    [_id |-> id, description |-> tasks[id].description,
     completed |-> tasks[id].completed, owner |-> tasks[id].owner]

StoredTask(doc) ==
    [description |-> doc.description, completed |-> doc.completed, owner |-> doc.owner]

\* task[update] = req.body[update]
TaskSet(doc, path, v) ==
    IF path \notin TaskPaths THEN doc ELSE [doc EXCEPT ![path] = TaskSetter(path, v)]

RECURSIVE TaskAssign(_, _, _)
TaskAssign(doc, body, updates) ==
    IF updates = {} THEN doc
    ELSE LET update == CHOOSE u \in updates : TRUE IN
         TaskAssign(TaskSet(doc, update, body[update]), body, updates \ {update})

\* validation run by task.save(): description and owner are required
TaskValid(doc) == doc.description # "" /\ doc.owner # 0

TaskAllowedUpdates == {"description", "completed"}

\* Task.findOne({ _id }): no owner in the filter
findOneTaskAnyOwner(id, owner) == {t \in DOMAIN tasks : t = id}

\* Task.findOne({ _id, owner })
findOneTask(id, owner) == {t \in DOMAIN tasks : t = id /\ tasks[t].owner = owner}

\* parseInt of a query parameter; NaN is -1
ParseInt(s) ==
    CASE s = "0" -> 0 [] s = "1" -> 1 [] s = "2" -> 2 [] s = "3" -> 3 [] OTHER -> -1

RECURSIVE Ascending(_)
\* the ids of S in creation order
Ascending(S) ==
    IF S = {} THEN <<>>
    ELSE LET m == CHOOSE x \in S : \A y \in S : x <= y IN <<m>> \o Ascending(S \ {m})

Reverse(seq) == [i \in 1..Len(seq) |-> seq[Len(seq) + 1 - i]]

\* a populate of every task that matches, whoever owns it
populateTasksAnyOwner(owner, query) ==
    LET matched == {t \in DOMAIN tasks :
                       query.completed # "" => tasks[t].completed = (query.completed = "true")}
        sorted == Ascending(matched)
    IN  [i \in 1..Len(sorted) |-> TaskDoc(sorted[i])]

\* req.user.populate({ path: 'tasks', match, options: { limit, skip, sort } })
populateTasks(owner, query) ==
    LET matched == {t \in DOMAIN tasks :
                       /\ tasks[t].owner = owner
                       /\ query.completed # "" => tasks[t].completed = (query.completed = "true")}
        parts == IF query.sortBy = "createdAt_desc" THEN <<"createdAt", "desc">>
                 ELSE IF query.sortBy = "createdAt_asc" THEN <<"createdAt", "asc">>
                 ELSE <<>>
        sorted == IF Len(parts) = 2 /\ parts[2] = "desc"
                  THEN Reverse(Ascending(matched)) ELSE Ascending(matched)
        skip == ParseInt(query.skip)
        limit == ParseInt(query.limit)
        skipped == IF skip > 0 THEN SubSeq(sorted, skip + 1, Len(sorted)) ELSE sorted
        limited == IF limit > 0 /\ limit < Len(skipped) THEN SubSeq(skipped, 1, limit)
                   ELSE skipped
    IN  [i \in 1..Len(limited) |-> TaskDoc(limited[i])]

\* ---------------------------------------------------------- the task router
\* a POST /tasks whose handler stores the task before the guard has answered
postTasksUnguarded(header, body) ==
    LET a == auth(header)
        task == NewTask(WithOwner(body, IF a.ok THEN a.user ELSE header.token._id), nextTaskId)
    IN  IF ~a.ok
        THEN Result(Unauthorized, users, (nextTaskId :> StoredTask(task)) @@ tasks)
        ELSE Result(Response(201, [task |-> task], a.user),
                    users, (nextTaskId :> StoredTask(task)) @@ tasks)

\* router.post('/tasks')
postTasks(header, body) ==
    LET a == auth(header) IN
    IF ~a.ok THEN Rejected(a.error)
    ELSE LET task == NewTask(WithOwner(body, a.user), nextTaskId) IN
         IF TaskValid(task)
         THEN Result(Response(201, [task |-> task], a.user),
                     users, (nextTaskId :> StoredTask(task)) @@ tasks)
         ELSE Result(Response(400, [error |-> "ValidationError"], a.user), users, tasks)

\* router.get('/tasks')
getTasks(header, query) ==
    LET a == auth(header) IN
    IF ~a.ok THEN Rejected(a.error)
    ELSE Result(Response(200, [tasks |-> populateTasks(a.user, query)], a.user), users, tasks)

\* a GET /tasks/:id that tells a task of someone else from no task
getTaskForbidden(header, id) ==
    LET a == auth(header) IN
    IF ~a.ok THEN Rejected(a.error)
    ELSE IF id \notin DOMAIN tasks
    THEN Result(Response(404, EmptyBody, a.user), users, tasks)
    ELSE IF tasks[id].owner # a.user
    THEN Result(Response(403, EmptyBody, a.user), users, tasks)
    ELSE Result(Response(200, [task |-> TaskDoc(id)], a.user), users, tasks)

\* router.get('/tasks/:id')
getTask(header, id) ==
    LET a == auth(header) IN
    IF ~a.ok THEN Rejected(a.error)
    ELSE IF findOneTask(id, a.user) = {}
    THEN Result(Response(404, EmptyBody, a.user), users, tasks)
    ELSE Result(Response(200, [task |-> TaskDoc(id)], a.user), users, tasks)

\* router.patch('/tasks/:id')
patchTask(header, id, body) ==
    LET a == auth(header)
        updates == DOMAIN body
    IN  IF ~a.ok THEN Rejected(a.error)
        ELSE IF ~isValidOperation(updates, TaskAllowedUpdates)
        THEN Result(Response(400, [error |-> "Invalid updates!"], a.user), users, tasks)
        ELSE IF findOneTask(id, a.user) = {}
        THEN Result(Response(404, EmptyBody, a.user), users, tasks)
        ELSE LET task == TaskAssign(TaskDoc(id), body, updates) IN
             IF TaskValid(task)
             THEN Result(Response(200, [task |-> task], a.user),
                         users, [tasks EXCEPT ![id] = StoredTask(task)])
             ELSE Result(Response(400, [error |-> "ValidationError"], a.user), users, tasks)

\* router.delete('/tasks/:id')
deleteTask(header, id) ==
    LET a == auth(header) IN
    IF ~a.ok THEN Rejected(a.error)
    ELSE IF findOneTask(id, a.user) = {}
    THEN Result(Response(404, EmptyBody, a.user), users, tasks)
    ELSE Result(Response(200, [task |-> TaskDoc(id)], a.user),
                users, Restrict(tasks, DOMAIN tasks \ {id}))

\* ----------------------------------------------------------------- actions
Init ==
    /\ users = <<>>
    /\ tasks = <<>>
    /\ now = 0
    /\ nextUserId = 1
    /\ nextTaskId = 1
    /\ issued = {}
    /\ creator = <<>>
    /\ plain = <<>>
    /\ registered = <<>>
    /\ loggedOutAll = {}
    /\ deletedTokens = {}
    /\ inflight = <<>>

\* the clock advances
Tick ==
    /\ now < MaxTime
    /\ now' = now + 1
    /\ UNCHANGED <<users, tasks, nextUserId, nextTaskId, issued, creator, plain, registered,
                   loggedOutAll, deletedTokens, inflight>>

\* Mongoose versioning: a save that sets an array path is sent as
\* updateOne({ _id, __v }, { $set, $inc: { __v: 1 } }), so a document read
\* before another array write (or a remove) landed is stale: its own save
\* matches nothing.  The stored __v is not kept; a request in flight records
\* whether the __v it read is still the stored one.
Staled(requests, before, after) ==
    [i \in DOMAIN requests |->
        LET u == requests[i].doc._id IN
        IF u \notin DOMAIN after \/ after[u].tokens # before[u].tokens
        THEN [requests[i] EXCEPT !.stale = TRUE]
        ELSE requests[i]]

\* a request whose handling writes the collections and nothing else
Handled(r) ==
    /\ users' = r.users
    /\ tasks' = r.tasks
    /\ inflight' = Staled(inflight, users, r.users)
    /\ UNCHANGED <<now, nextUserId, nextTaskId, issued, creator, plain, registered,
                   loggedOutAll, deletedTokens>>

\* a POST /users is handled
Register ==
    \E body \in RegisterBodies :
        LET r == postUsers(body) IN
        /\ nextUserId <= MaxUsers
        /\ users' = r.users
        /\ IF r.res.status = 201
           THEN LET id == r.res.body.user._id IN
                /\ nextUserId' = IF id = nextUserId THEN nextUserId + 1 ELSE nextUserId
                /\ issued' = issued \cup {[token |-> r.res.body.token, user |-> id]}
                /\ plain' = (id :> body.password) @@ plain
                /\ registered' = (id :> body) @@ registered
           ELSE UNCHANGED <<nextUserId, issued, plain, registered>>
        /\ UNCHANGED <<tasks, now, nextTaskId, creator, loggedOutAll, deletedTokens, inflight>>

\* a POST /users whose body names the _id of an earlier user is handled
RegisterAgain ==
    \E body \in RegisterAgainBodies :
        LET r == postUsers(body) IN
        /\ users' = r.users
        /\ IF r.res.status = 201
           THEN LET id == r.res.body.user._id IN
                /\ nextUserId' = IF id = nextUserId THEN nextUserId + 1 ELSE nextUserId
                /\ issued' = issued \cup {[token |-> r.res.body.token, user |-> id]}
                /\ plain' = (id :> body.password) @@ plain
                /\ registered' = (id :> body) @@ registered
           ELSE UNCHANGED <<nextUserId, issued, plain, registered>>
        /\ UNCHANGED <<tasks, now, nextTaskId, creator, loggedOutAll, deletedTokens, inflight>>

\* a POST /users/login is handled
Login ==
    \E body \in LoginBodies :
        LET r == postUsersLogin(body) IN
        /\ \A u \in DOMAIN r.users : Len(r.users[u].tokens) <= MaxTokens
        /\ users' = r.users
        /\ issued' = IF r.res.status = 200
                     THEN issued \cup {[token |-> r.res.body.token, user |-> r.res.body.user._id]}
                     ELSE issued
        /\ inflight' = Staled(inflight, users, r.users)
        /\ UNCHANGED <<tasks, now, nextUserId, nextTaskId, creator, plain, registered,
                       loggedOutAll, deletedTokens>>

\* a POST /users/logout is handled
Logout == \E header \in Headers : Handled(postUsersLogout(header))

\* a POST /users/logoutAll is handled
LogoutAll ==
    \E header \in Headers :
        LET r == postUsersLogoutAll(header) IN
        /\ users' = r.users
        /\ loggedOutAll' = IF r.res.status = 200
                           THEN loggedOutAll
                                    \cup {i.token : i \in {j \in issued : j.user = r.res.user}}
                           ELSE loggedOutAll
        /\ inflight' = Staled(inflight, users, r.users)
        /\ UNCHANGED <<tasks, now, nextUserId, nextTaskId, issued, creator, plain, registered,
                       deletedTokens>>

\* a GET /users/me is handled
GetMe == \E header \in Headers : Handled(getUsersMe(header))

\* a PATCH /users/me is handled
PatchMe ==
    \E header \in Headers, body \in UserPatchBodies :
        LET r == patchUsersMe(header, body) IN
        /\ users' = r.users
        /\ plain' = IF r.res.status = 200 /\ "password" \in DOMAIN body
                    THEN [plain EXCEPT ![r.res.user] = body.password]
                    ELSE plain
        /\ inflight' = Staled(inflight, users, r.users)
        /\ UNCHANGED <<tasks, now, nextUserId, nextTaskId, issued, creator, registered,
                       loggedOutAll, deletedTokens>>

\* a DELETE /users/me is handled
DeleteMe ==
    \E header \in Headers, fault \in Faults :
        LET r == deleteUsersMeOn(header, fault) IN
        /\ users' = r.users
        /\ tasks' = r.tasks
        /\ inflight' = Staled(inflight, users, r.users)
        /\ deletedTokens' = IF r.res.status = 200
                            THEN deletedTokens
                                     \cup {i.token : i \in {j \in issued : j.user = r.res.user}}
                            ELSE deletedTokens
        /\ UNCHANGED <<now, nextUserId, nextTaskId, issued, creator, plain, registered,
                       loggedOutAll>>

\* a POST /users/me/avatar is handled
UploadAvatar ==
    \E header \in Headers, originalname \in AvatarFiles :
        Handled(postUsersMeAvatar(header, originalname))

\* a DELETE /users/me/avatar is handled
DeleteAvatar == \E header \in Headers : Handled(deleteUsersMeAvatar(header))

\* a GET /users/:id/avatar is handled
GetAvatar == \E id \in 1..MaxUsers : Handled(getUsersAvatar(id))

\* a POST /tasks is handled
CreateTask ==
    \E header \in Headers, body \in TaskCreateBodies :
        LET r == postTasks(header, body) IN
        /\ nextTaskId <= MaxTasks
        /\ tasks' = r.tasks
        /\ IF r.res.status = 201
           THEN /\ nextTaskId' = nextTaskId + 1
                /\ creator' = (nextTaskId :> r.res.user) @@ creator
           ELSE UNCHANGED <<nextTaskId, creator>>
        /\ UNCHANGED <<users, now, nextUserId, issued, plain, registered, loggedOutAll, deletedTokens,
                       inflight>>

\* a GET /tasks is handled
ListTasks == \E header \in Headers, query \in TaskQueries : Handled(getTasks(header, query))

\* a GET /tasks/:id is handled
GetTask == \E header \in Headers, id \in 1..MaxTasks : Handled(getTask(header, id))

\* a PATCH /tasks/:id is handled
PatchTask ==
    \E header \in Headers, id \in 1..MaxTasks, body \in TaskPatchBodies :
        Handled(patchTask(header, id, body))

\* a DELETE /tasks/:id is handled
DeleteTask == \E header \in Headers, id \in 1..MaxTasks : Handled(deleteTask(header, id))

\* ------------------------------------------------- requests that overlap
\* a handler awaits its reads and its save, and other requests run in between;
\* a login and a logoutAll are also taken in two steps, the read and the save
Remove(seq, i) == SubSeq(seq, 1, i - 1) \o SubSeq(seq, i + 1, Len(seq))

\* POST /users/login up to the save in generateAuthToken: findByCredentials
\* has read the user, the token is signed and concatenated in memory
LoginRead ==
    \E body \in LoginBodies :
        LET cred == findByCredentials(body.email, body.password)
            user == Hydrate(cred.user)
            token == JwtSign(cred.user, JWT_SECRET)
        IN  /\ cred.ok
            /\ Len(inflight) < MaxInflight
            /\ Len(user.tokens) < MaxTokens
            /\ inflight' = Append(inflight,
                                  [op |-> "login",
                                   doc |-> UserSet(user, "tokens", Append(user.tokens, token)),
                                   token |-> token,
                                   stale |-> FALSE])
            /\ UNCHANGED <<users, tasks, now, nextUserId, nextTaskId, issued, creator, plain,
                           registered, loggedOutAll, deletedTokens>>

\* POST /users/logoutAll up to its save: the guard has read the user,
\* req.user.tokens = []
LogoutAllRead ==
    \E header \in Headers :
        LET a == auth(header) IN
        /\ a.ok
        /\ Len(inflight) < MaxInflight
        /\ inflight' = Append(inflight,
                              [op |-> "logoutAll",
                               doc |-> UserSet(Hydrate(a.user), "tokens", <<>>),
                               token |-> a.token,
                               stale |-> FALSE])
        /\ UNCHANGED <<users, tasks, now, nextUserId, nextTaskId, issued, creator, plain,
                       registered, loggedOutAll, deletedTokens>>

\* document.save() of a document read earlier whose tokens were set:
\* updateOne({ _id, __v }, { $set: { tokens }, $inc: { __v: 1 } }), and a
\* VersionError when nothing matched
saveOn(collection, request) ==
    IF ~request.stale /\ request.doc._id \in DOMAIN collection
    THEN [ok |-> TRUE,
          users |-> [collection EXCEPT ![request.doc._id].tokens = request.doc.tokens]]
    ELSE [ok |-> FALSE, users |-> collection]

\* request i saves and its handler answers: the rest of generateAuthToken and
\* of the login route, or of the logoutAll route, with their catch blocks
landOn(collection, requests, i) ==
    LET request == requests[i]
        saved == saveOn(collection, request)
        response ==
            IF request.op = "login"
            THEN IF saved.ok
                 THEN Response(200, [user |-> toJSON(request.doc), token |-> request.token], 0)
                 ELSE Response(400, EmptyBody, 0)
            ELSE IF saved.ok
                 THEN Response(200, EmptyBody, request.doc._id)
                 ELSE Response(500, EmptyBody, request.doc._id)
    IN  [res |-> response,
         users |-> saved.users,
         inflight |-> Staled(Remove(requests, i), collection, saved.users)]

\* the save of a login in flight lands and the login is answered
LoginSave ==
    \E i \in DOMAIN inflight :
        LET r == landOn(users, inflight, i) IN
        /\ inflight[i].op = "login"
        /\ users' = r.users
        /\ inflight' = r.inflight
        /\ issued' = IF r.res.status = 200
                     THEN issued \cup {[token |-> r.res.body.token, user |-> inflight[i].doc._id]}
                     ELSE issued
        /\ UNCHANGED <<tasks, now, nextUserId, nextTaskId, creator, plain, registered,
                       loggedOutAll, deletedTokens>>

\* the save of a logoutAll in flight lands and the logoutAll is answered
LogoutAllSave ==
    \E i \in DOMAIN inflight :
        LET r == landOn(users, inflight, i) IN
        /\ inflight[i].op = "logoutAll"
        /\ users' = r.users
        /\ inflight' = r.inflight
        /\ loggedOutAll' = IF r.res.status = 200
                           THEN loggedOutAll
                                    \cup {k.token : k \in {j \in issued : j.user = r.res.user}}
                           ELSE loggedOutAll
        /\ UNCHANGED <<tasks, now, nextUserId, nextTaskId, issued, creator, plain, registered,
                       deletedTokens>>

\* POST /tasks up to task.save(): the guard has read the user and attached it
PostTasksGuard ==
    \E header \in Headers, body \in TaskCreateBodies :
        LET a == auth(header) IN
        /\ a.ok
        /\ Len(inflight) < MaxInflight
        /\ inflight' = Append(inflight,
                              [op |-> "postTasks",
                               doc |-> Hydrate(a.user),
                               token |-> a.token,
                               stale |-> FALSE,
                               body |-> body])
        /\ UNCHANGED <<users, tasks, now, nextUserId, nextTaskId, issued, creator, plain,
                       registered, loggedOutAll, deletedTokens>>

\* the task.save() of a POST /tasks in flight lands and the request is
\* answered: the task is inserted with owner req.user._id, whatever has
\* become of that user since the guard
PostTasksSave ==
    \E i \in DOMAIN inflight :
        LET request == inflight[i]
            task == NewTask(WithOwner(request.body, request.doc._id), nextTaskId)
        IN  /\ request.op = "postTasks"
            /\ nextTaskId <= MaxTasks
            /\ inflight' = Remove(inflight, i)
            /\ IF TaskValid(task)
               THEN /\ tasks' = (nextTaskId :> StoredTask(task)) @@ tasks
                    /\ nextTaskId' = nextTaskId + 1
                    /\ creator' = (nextTaskId :> request.doc._id) @@ creator
               ELSE UNCHANGED <<tasks, nextTaskId, creator>>
            /\ UNCHANGED <<users, now, nextUserId, issued, plain, registered, loggedOutAll, deletedTokens>>

\* DELETE /users/me up to the delete of the user: the guard has passed and the
\* remove hook has run Task.deleteMany({ owner: user._id })
DeleteMeCascade ==
    \E header \in Headers :
        LET a == auth(header) IN
        /\ a.ok
        /\ Len(inflight) < MaxInflight
        /\ tasks' = preRemove(a.user)
        /\ inflight' = Append(inflight,
                              [op |-> "deleteMe",
                               doc |-> Hydrate(a.user),
                               token |-> a.token,
                               stale |-> FALSE])
        /\ UNCHANGED <<users, now, nextUserId, nextTaskId, issued, creator, plain,
                       registered, loggedOutAll, deletedTokens>>

\* the user of a DELETE /users/me in flight is deleted and the request answered
DeleteMeRemove ==
    \E i \in DOMAIN inflight :
        LET id == inflight[i].doc._id
            left == Restrict(users, DOMAIN users \ {id})
        IN  /\ inflight[i].op = "deleteMe"
            /\ users' = left
            /\ inflight' = Staled(Remove(inflight, i), users, left)
            /\ deletedTokens' = deletedTokens \cup {k.token : k \in {j \in issued : j.user = id}}
            /\ UNCHANGED <<tasks, now, nextUserId, nextTaskId, issued, creator, plain,
                           registered, loggedOutAll>>

\* ---------------------------------------------------------- specifications
\* sessions: the token list of an account over time
NextSessions ==
    \/ Tick
    \/ Register
    \/ Login
    \/ Logout
    \/ LogoutAll
    \/ GetMe

\* profiles: accounts that are updated and deleted
NextProfiles ==
    \/ Register
    \/ Login
    \/ Logout
    \/ GetMe
    \/ PatchMe
    \/ DeleteMe

\* the task router, with the account operations tasks depend on
NextTasks ==
    \/ Register
    \/ DeleteMe
    \/ CreateTask
    \/ ListTasks
    \/ GetTask
    \/ PatchTask
    \/ DeleteTask

\* the two PATCH routes, with the routes that create their records
NextPatch ==
    \/ Register
    \/ PatchMe
    \/ CreateTask
    \/ PatchTask

\* logins and logoutAlls that overlap
NextRace ==
    \/ Register
    \/ LoginRead
    \/ LoginSave
    \/ LogoutAllRead
    \/ LogoutAllSave

\* registrations and logins next to avatar and task requests
NextLists ==
    \/ Register
    \/ Login
    \/ UploadAvatar
    \/ DeleteAvatar
    \/ CreateTask

\* tasks created, changed and read
NextReads ==
    \/ Register
    \/ CreateTask
    \/ PatchTask
    \/ ListTasks
    \/ GetTask

\* accounts deleted and registered again under their old _id
NextRejoin ==
    \/ Tick
    \/ Register
    \/ RegisterAgain
    \/ Login
    \/ GetMe
    \/ DeleteMe

\* task creations and account deletions that overlap
NextOrphan ==
    \/ Register
    \/ PostTasksGuard
    \/ PostTasksSave
    \/ DeleteMeCascade
    \/ DeleteMeRemove

NextAvatar ==
    \/ UploadAvatar
    \/ DeleteAvatar
    \/ GetAvatar

Next ==
    \/ NextSessions \/ NextProfiles \/ NextTasks \/ NextPatch \/ NextRace \/ NextLists
    \/ NextReads \/ NextRejoin \/ NextOrphan \/ NextAvatar

Spec == Init /\ [][Next]_vars
SpecSessions == Init /\ [][NextSessions]_vars
SpecProfiles == Init /\ [][NextProfiles]_vars
SpecTasks == Init /\ [][NextTasks]_vars
SpecPatch == Init /\ [][NextPatch]_vars
SpecRace == Init /\ [][NextRace]_vars
SpecLists == Init /\ [][NextLists]_vars
SpecReads == Init /\ [][NextReads]_vars
SpecRejoin == Init /\ [][NextRejoin]_vars
SpecOrphan == Init /\ [][NextOrphan]_vars

\* ------------------------------------------------------------------ claims
\* P holds of every request a client may send to a guarded route and of what
\* handling it comes to
OnEveryGuardedRoute(P(_, _)) ==
    \A header \in Headers :
        /\ P(header, postUsersLogout(header))
        /\ P(header, postUsersLogoutAll(header))
        /\ P(header, getUsersMe(header))
        /\ \A body \in UserPatchBodies : P(header, patchUsersMe(header, body))
        /\ P(header, deleteUsersMe(header))
        /\ \A originalname \in AvatarFiles : P(header, postUsersMeAvatar(header, originalname))
        /\ P(header, deleteUsersMeAvatar(header))
        /\ \A body \in TaskCreateBodies : P(header, postTasks(header, body))
        /\ \A query \in TaskQueries : P(header, getTasks(header, query))
        /\ \A id \in 1..MaxTasks :
              /\ P(header, getTask(header, id))
              /\ \A body \in TaskPatchBodies : P(header, patchTask(header, id, body))
              /\ P(header, deleteTask(header, id))

\* the request was authenticated as someone other than the owner of stored task t
ForeignCaller(r, t) == r.res.user # 0 /\ r.res.user # tasks[t].owner

\* stored task t is still there, as it was
Untouched(r, t) == t \in DOMAIN r.tasks /\ r.tasks[t] = tasks[t]

NotFound(r) == r.res.status = 404 /\ r.res.body = EmptyBody

\* C1 as stated: a GET, PATCH or DELETE on /tasks/:id for a task of user A,
\* authenticated as another user B, is answered 404 with no body, and the
\* stored task is still there, unchanged.
C1_Original ==
    \A header \in Headers, t \in DOMAIN tasks :
        /\ LET r == getTask(header, t) IN
              ForeignCaller(r, t) => NotFound(r) /\ Untouched(r, t)
        /\ LET r == deleteTask(header, t) IN
              ForeignCaller(r, t) => NotFound(r) /\ Untouched(r, t)
        /\ \A body \in TaskPatchBodies :
              LET r == patchTask(header, t, body) IN
              ForeignCaller(r, t) => NotFound(r) /\ Untouched(r, t)

\* C1 amended: the answer is 404 with no body, except that a PATCH whose body
\* names a field outside the allow-list is answered 400 "Invalid updates!"
\* before the task is looked up; in both cases the response carries no task
\* and the stored task is still there, unchanged.
C1_ForeignTaskNotFound ==
    \A header \in Headers, t \in DOMAIN tasks :
        /\ LET r == getTask(header, t) IN
              ForeignCaller(r, t) => NotFound(r) /\ Untouched(r, t)
        /\ LET r == deleteTask(header, t) IN
              ForeignCaller(r, t) => NotFound(r) /\ Untouched(r, t)
        /\ \A body \in TaskPatchBodies :
              LET r == patchTask(header, t, body) IN
              ForeignCaller(r, t) =>
                  /\ \/ NotFound(r)
                     \/ /\ ~(DOMAIN body \subseteq {"description", "completed"})
                        /\ r.res.status = 400
                        /\ r.res.body = [error |-> "Invalid updates!"]
                  /\ Untouched(r, t)

C1_Witness ==
    \E header \in Headers, t \in DOMAIN tasks :
        LET r == patchTask(header, t, [completed |-> TRUE]) IN
        /\ ForeignCaller(r, t)
        /\ r.res.user \in DOMAIN users
        /\ NotFound(r)
        /\ ~tasks[t].completed

\* the handler ran only on a token that verifies and is in the token list of
\* the user whose _id it embeds, and ran as that user
Admitted(header, r) ==
    r.res.ran =>
        LET token == header.token IN
        /\ header.present
        /\ JwtVerify(token, JWT_SECRET).ok
        /\ token._id \in DOMAIN users
        /\ token \in Range(users[token._id].tokens)
        /\ r.res.user = token._id

\* C2: a request to a guarded route reaches its handler only if its token
\* verifies against JWT_SECRET and, when the guard looks it up, is in the token
\* list of the user whose _id the token embeds.
C2_GuardOnlyLiveTokens == OnEveryGuardedRoute(Admitted)

C2_Witness ==
    \E header \in Headers, i \in issued :
        /\ getUsersMe(header).res.ran
        /\ i.user = getUsersMe(header).res.user
        /\ i.token # header.token
        /\ i.token \notin Range(users[i.user].tokens)
        /\ ~getUsersMe(Bearer(i.token)).res.ran

\* the identity the guard attached is the user the token was issued to
ResolvesToIssuee(header, r) ==
    r.res.user # 0 =>
        /\ \E i \in issued : i.token = header.token
        /\ \A i \in issued : i.token = header.token => i.user = r.res.user

\* C3: whenever the guard accepts a token, the identity it attaches is the
\* user the token was issued to, whatever registrations, logins, logouts,
\* profile updates and account deletions came before.
C3_TokenResolvesToItsUser == OnEveryGuardedRoute(ResolvesToIssuee)

C3_Witness ==
    /\ DOMAIN users = {2}
    /\ users[2].name = "Bob"
    /\ \E header \in Headers :
          /\ getUsersMe(header).res.user = 2
          /\ getUsersMe(header).res.body.user.name = "Bob"
    /\ \E i \in issued : i.user = 1 /\ ~getUsersMe(Bearer(i.token)).res.ran

\* C4: a successful logout with token T leaves the caller's token list as it
\* was with T taken out: T is rejected by the guard afterwards, every other
\* token of the list is still in it and still accepted, and nothing else of
\* any user record changes.
C4_LogoutRemovesExactlyT ==
    \A header \in Headers :
        LET r == postUsersLogout(header)
            u == r.res.user
            T == header.token
            others == Range(users[u].tokens) \ {T}
        IN  r.res.status = 200 =>
              /\ T \in Range(users[u].tokens)
              /\ T \notin Range(r.users[u].tokens)
              /\ ~authOn(r.users, Bearer(T)).ok
              /\ \A t \in others :
                    /\ t \in Range(r.users[u].tokens)
                    /\ auth(Bearer(t)).ok => authOn(r.users, Bearer(t)).user = u
              /\ r.users[u].tokens = SelectSeq(users[u].tokens, LAMBDA t : t # T)
              /\ r.users[u] = [users[u] EXCEPT !.tokens = r.users[u].tokens]
              /\ DOMAIN r.users = DOMAIN users
              /\ \A v \in DOMAIN users \ {u} : r.users[v] = users[v]
              /\ r.tasks = tasks

C4_Witness ==
    \E header \in Headers :
        LET r == postUsersLogout(header)
            u == r.res.user
        IN  /\ r.res.status = 200
            /\ r.users[u].tokens # <<>>
            /\ authOn(r.users, Bearer(r.users[u].tokens[1])).user = u
            /\ ~authOn(r.users, header).ok

\* C5 as stated: once a logoutAll of a user has been answered 200, every token
\* issued to that user before it is rejected by the guard of every route.
C5_LogoutAllRevokesForGood ==
    \A token \in loggedOutAll : ~auth(Bearer(token)).ok

\* the users whose DELETE /users/me has been answered 200
Deleted == (1..(nextUserId - 1)) \ DOMAIN users

RejectedWhole(r, body, allowed) ==
    (r.res.ran /\ ~(DOMAIN body \subseteq allowed)) =>
        /\ r.res.status = 400
        /\ r.users = users
        /\ r.tasks = tasks

\* C7: a PATCH /tasks/:id or PATCH /users/me that passed the guard and whose
\* body names a field outside the route's allow-list is answered 400 and
\* leaves every stored user and task as it was.
C7_DisallowedFieldRejectsAll ==
    \A header \in Headers :
        /\ \A body \in UserPatchBodies :
              RejectedWhole(patchUsersMe(header, body), body,
                            {"name", "email", "password", "age"})
        /\ \A id \in 1..MaxTasks, body \in TaskPatchBodies :
              RejectedWhole(patchTask(header, id, body), body, {"description", "completed"})

C7_Witness ==
    \E header \in Headers, id \in DOMAIN tasks, body \in TaskPatchBodies :
        LET r == patchTask(header, id, body) IN
        /\ "owner" \in DOMAIN body /\ "completed" \in DOMAIN body
        /\ r.res.status = 400
        /\ r.res.user = tasks[id].owner
        /\ ~tasks[id].completed
        /\ users[r.res.user].name = "Bob"

\* C8: every stored task's owner is the identity the guard attached to the
\* POST /tasks that created it, whatever owner the body named, and stays so.
C8_OwnerIsCreator ==
    /\ \A t \in DOMAIN tasks : tasks[t].owner = creator[t]
    /\ \A header \in Headers, body \in TaskCreateBodies :
          LET r == postTasks(header, body) IN
          r.res.status = 201 =>
              /\ r.tasks[nextTaskId].owner = r.res.user
              /\ r.res.body.task.owner = r.res.user
    /\ \A header \in Headers, id \in DOMAIN tasks, body \in TaskPatchBodies :
          LET r == patchTask(header, id, body) IN
          id \in DOMAIN r.tasks /\ r.tasks[id].owner = tasks[id].owner

C8_Witness ==
    /\ \E header \in Headers, body \in TaskCreateBodies :
          LET r == postTasks(header, body) IN
          /\ r.res.status = 201
          /\ "owner" \in DOMAIN body
          /\ body.owner \in DOMAIN users
          /\ body.owner # r.res.user
    /\ \E t \in DOMAIN tasks :
          /\ tasks[t].completed
          /\ tasks[t].description = "walk dog"
          /\ tasks[t].owner = creator[t]

\* C9 as stated: after a successful registration the stored password differs
\* from the submitted plaintext, and a login with the registered email and
\* that plaintext succeeds (as long as the password was not changed since).
C9_RegisteredPlaintextLogsIn ==
    \A u \in DOMAIN users :
        /\ users[u].password # registered[u].password
        /\ plain[u] = registered[u].password =>
              postUsersLogin([email |-> registered[u].email,
                              password |-> registered[u].password]).res.status = 200

\* C10 as stated: a stored password is always the hash, applied once, of the
\* plaintext last accepted for that user, so a login with that plaintext
\* succeeds.
C10_HashedOnceOfLastPlaintext ==
    \A u \in DOMAIN users :
        /\ users[u].password = BcryptHash(plain[u])
        /\ postUsersLogin([email |-> users[u].email, password |-> plain[u]]).res.status = 200

\* what holds of the code instead: the hash, applied once, of the trimmed plaintext
HashedOnceOfTrimmedPlaintext ==
    \A u \in DOMAIN users : users[u].password = BcryptHash(Trim(plain[u]))

\* why the guard has to fail on a header, read off the header and the history
Absent(header) == ~header.present
Malformed(header) == header.present /\ header.token = MalformedToken
BadSignature(header) ==
    header.present /\ header.token # MalformedToken /\ header.token.sig # JWT_SECRET
Revoked(header) ==
    /\ header.present
    /\ \E i \in issued :
          /\ i.token = header.token
          /\ i.user \in DOMAIN users
          /\ header.token \notin Range(users[i.user].tokens)
UserGone(header) ==
    /\ header.present
    /\ \E i \in issued : i.token = header.token /\ i.user \notin DOMAIN users

\* whichever of the five reasons applies, the answer is the one 401
FailsUniformly(header, r) ==
    (Absent(header) \/ Malformed(header) \/ BadSignature(header) \/ Revoked(header)
        \/ UserGone(header))
    => /\ r.res.status = 401
       /\ r.res.body = [error |-> "Please authenticate."]
       /\ ~r.res.ran

\* C11: on every guarded route the guard's failure is the same response,
\* status 401 with the body { error: "Please authenticate." }, whether the
\* header is absent, the token malformed, its signature wrong, the token
\* revoked, or the user it embeds gone.
C11_GuardFailsUniformly == OnEveryGuardedRoute(FailsUniformly)

C11_Witness ==
    \E revoked \in Headers, gone \in Headers :
        /\ Revoked(revoked) /\ UserGone(gone)
        /\ getUsersMe(revoked).res = getUsersMe(gone).res
        /\ getUsersMe(gone).res = getUsersMe(NoHeader).res
        /\ getUsersMe(NoHeader).res = getUsersMe(Bearer(ForgedToken)).res
        /\ getUsersMe(Bearer(ForgedToken)).res = getUsersMe(Bearer(MalformedToken)).res
        /\ getUsersMe(Bearer(MalformedToken)).res.status = 401

\* well-formed task ids a client may name: those handed out and one never handed out
TaskIds == 1..(MaxTasks + 1)

\* C12: for GET, PATCH and DELETE on /tasks/:id with the same body, the
\* response (status and body) for the id of a task owned by someone else is
\* the response for a well-formed id that names no task.
C12_ForeignLikeMissing ==
    \A header \in Headers, t \in DOMAIN tasks, missing \in TaskIds \ DOMAIN tasks :
        auth(header).ok /\ auth(header).user # tasks[t].owner =>
            /\ getTask(header, t).res = getTask(header, missing).res
            /\ deleteTask(header, t).res = deleteTask(header, missing).res
            /\ \A body \in TaskPatchBodies :
                  patchTask(header, t, body).res = patchTask(header, missing, body).res

C12_Witness ==
    \E header \in Headers, t \in DOMAIN tasks, missing \in TaskIds \ DOMAIN tasks :
        /\ auth(header).ok /\ auth(header).user # tasks[t].owner
        /\ missing < nextTaskId
        /\ getTask(header, t).res = getTask(header, missing).res
        /\ getTask(header, t).res.status = 404
        /\ patchTask(header, t, [completed |-> TRUE]).res.status = 404

\* a request answered 401 wrote nothing
RejectedWritesNothing(header, r) ==
    r.res.status = 401 => ~r.res.ran /\ r.users = users /\ r.tasks = tasks

\* C13: a request to a guarded route that the guard answers 401 leaves every
\* user record, every token list and every task as it was.
C13_RejectedChangesNothing == OnEveryGuardedRoute(RejectedWritesNothing)

C13_Witness ==
    \E header \in Headers, body \in TaskCreateBodies :
        /\ UserGone(header)
        /\ users # <<>> /\ tasks # <<>>
        /\ "description" \in DOMAIN body
        /\ postTasks(header, body).res.status = 401
        /\ postTasks(header, body).tasks = tasks
        /\ deleteUsersMe(header).users = users

\* the caller's stored tasks that pass the completed filter of a query
OwnMatching(user, query) ==
    {t \in DOMAIN tasks :
        /\ tasks[t].owner = user
        /\ query.completed = "true" => tasks[t].completed
        /\ query.completed = "false" => ~tasks[t].completed}

\* C14: GET /tasks returns only stored tasks owned by the caller, each once,
\* whatever the completed, limit, skip and sortBy modifiers; with no limit and
\* no skip it returns all of the caller's tasks that pass the completed filter
\* (all of them when completed is not given).
C14_ListIsCallersOwn ==
    \A header \in Headers, query \in TaskQueries :
        LET r == getTasks(header, query)
            list == r.res.body.tasks
            ids == {list[i]._id : i \in 1..Len(list)}
        IN  r.res.status = 200 =>
              /\ \A i \in 1..Len(list) :
                    /\ list[i].owner = r.res.user
                    /\ list[i]._id \in OwnMatching(r.res.user, query)
                    /\ list[i] = TaskDoc(list[i]._id)
              /\ Cardinality(ids) = Len(list)
              /\ (query.limit = "" /\ query.skip = "") => ids = OwnMatching(r.res.user, query)

C14_Witness ==
    \E header \in Headers, t \in DOMAIN tasks :
        LET all == getTasks(header, [completed |-> "", limit |-> "", skip |-> "", sortBy |-> ""])
            done == getTasks(header, [completed |-> "true", limit |-> "", skip |-> "",
                                      sortBy |-> "createdAt_desc"])
        IN  /\ all.res.status = 200
            /\ tasks[t].owner # all.res.user
            /\ tasks[t].completed
            /\ Len(all.res.body.tasks) = 1
            /\ ~all.res.body.tasks[1].completed
            /\ done.res.body.tasks = <<>>

\* a response body that carries a user carries no password, tokens or avatar
OmitsSecrets(r) ==
    "user" \in DOMAIN r.res.body =>
        /\ DOMAIN r.res.body.user \cap {"password", "tokens", "avatar"} = {}
        /\ {"_id", "name", "email"} \subseteq DOMAIN r.res.body.user

\* C15: every response body that carries a user (register, login, GET, PATCH
\* and DELETE /users/me) has none of the fields password, tokens, avatar.
C15_UserBodiesOmitSecrets ==
    /\ \A body \in RegisterBodies : OmitsSecrets(postUsers(body))
    /\ \A body \in LoginBodies : OmitsSecrets(postUsersLogin(body))
    /\ \A header \in Headers :
          /\ OmitsSecrets(getUsersMe(header))
          /\ OmitsSecrets(deleteUsersMe(header))
          /\ \A body \in UserPatchBodies : OmitsSecrets(patchUsersMe(header, body))

C15_Witness ==
    \E header \in Headers, login \in LoginBodies :
        LET me == getUsersMe(header)
            patched == patchUsersMe(header, [password |-> "secret77 "])
        IN  /\ me.res.status = 200
            /\ users[me.res.user].name = "Bob"
            /\ me.res.body.user = [_id |-> me.res.user, name |-> "Bob",
                                   email |-> users[me.res.user].email, age |-> 0]
            /\ patched.res.status = 200
            /\ patched.users[me.res.user].password # users[me.res.user].password
            /\ "password" \notin DOMAIN patched.res.body.user
            /\ postUsersLogin(login).res.status = 200
            /\ "tokens" \notin DOMAIN postUsersLogin(login).res.body.user
            /\ deleteUsersMe(header).res.status = 200

\* C16: a successful login leaves the user's token list as it was with the
\* returned token appended: one entry more, every earlier token still in the
\* list and still accepted by the guard as that user, no other record touched;
\* and the handler appends however long the list already is.
C16_LoginAppendsOneToken ==
    \A body \in LoginBodies :
        LET r == postUsersLogin(body)
            u == r.res.body.user._id
        IN  r.res.status = 200 =>
              /\ r.users[u].tokens = Append(users[u].tokens, r.res.body.token)
              /\ Len(r.users[u].tokens) = Len(users[u].tokens) + 1
              /\ \A t \in Range(users[u].tokens) :
                    /\ t \in Range(r.users[u].tokens)
                    /\ auth(Bearer(t)).ok => authOn(r.users, Bearer(t)).user = u
              /\ authOn(r.users, Bearer(r.res.body.token)).user = u
              /\ r.users[u] = [users[u] EXCEPT !.tokens = r.users[u].tokens]
              /\ DOMAIN r.users = DOMAIN users
              /\ \A v \in DOMAIN users \ {u} : r.users[v] = users[v]
              /\ r.tasks = tasks

C16_Witness ==
    \E body \in LoginBodies :
        LET r == postUsersLogin(body)
            u == r.res.body.user._id
        IN  /\ r.res.status = 200
            /\ Len(users[u].tokens) = MaxTokens
            /\ Cardinality(Range(users[u].tokens)) > 1
            /\ Len(r.users[u].tokens) = MaxTokens + 1
            /\ \A t \in Range(users[u].tokens) : authOn(r.users, Bearer(t)).user = u

\* the place of request j once request i has left the requests in flight
After(i, j) == IF j > i THEN j - 1 ELSE j

\* a login (request i) and a logoutAll (request j) of the same account that
\* have both read the account and neither has saved yet
Overlap(i, j) ==
    /\ inflight[i].op = "login" /\ inflight[j].op = "logoutAll"
    /\ inflight[i].doc._id = inflight[j].doc._id
    /\ ~inflight[i].stale /\ ~inflight[j].stale

\* C17 as stated: when a login and a logoutAll of one account overlap, both
\* complete with success, and the token list is what the later save wrote:
\* empty if the logoutAll saved last, the list the login read plus its new
\* token if the login saved last.
C17_LastWriteWins ==
    \A i, j \in DOMAIN inflight :
        Overlap(i, j) =>
            LET u == inflight[i].doc._id
                login1 == landOn(users, inflight, i)
                logoutAll2 == landOn(login1.users, login1.inflight, After(i, j))
                logoutAll1 == landOn(users, inflight, j)
                login2 == landOn(logoutAll1.users, logoutAll1.inflight, After(j, i))
            IN  /\ login1.res.status = 200 /\ logoutAll2.res.status = 200
                /\ logoutAll2.users[u].tokens = <<>>
                /\ logoutAll1.res.status = 200 /\ login2.res.status = 200
                /\ login2.users[u].tokens = inflight[i].doc.tokens

\* what holds of the code instead: the save that lands first wins, and the
\* other request fails on its stale __v (login with 400, logoutAll with 500)
\* and writes nothing
FirstSaveWins ==
    \A i, j \in DOMAIN inflight :
        Overlap(i, j) =>
            LET u == inflight[i].doc._id
                login1 == landOn(users, inflight, i)
                logoutAll2 == landOn(login1.users, login1.inflight, After(i, j))
                logoutAll1 == landOn(users, inflight, j)
                login2 == landOn(logoutAll1.users, logoutAll1.inflight, After(j, i))
            IN  /\ login1.res.status = 200 /\ logoutAll2.res.status = 500
                /\ logoutAll2.users[u].tokens = inflight[i].doc.tokens
                /\ logoutAll1.res.status = 200 /\ login2.res.status = 400
                /\ login2.users[u].tokens = <<>>

\* C18 as stated: after a POST /users answered 201 the new user's token list
\* holds exactly one token, the one of the response, and GET /users/me with that
\* token is answered 200 with the new user's profile.
C18_RegisterYieldsOneToken ==
    \A body \in RegisterBodies :
        LET r == postUsers(body)
            a == authOn(r.users, Bearer(r.res.body.token))
        IN  r.res.status = 201 =>
              /\ r.users[r.res.body.user._id].tokens = <<r.res.body.token>>
              /\ a.ok /\ a.user = r.res.body.user._id
              /\ r.res.body.user = [_id |-> r.res.body.user._id,
                                    name |-> r.users[r.res.body.user._id].name,
                                    email |-> r.users[r.res.body.user._id].email,
                                    age |-> r.users[r.res.body.user._id].age]

\* what the code does: the token of the 201 response is the last of the new
\* user's list, after the entries the request body itself carried, and the guard
\* accepts it as the new user
RegisterAppendsToBodyTokens ==
    \A body \in RegisterBodies :
        LET r == postUsers(body)
            a == authOn(r.users, Bearer(r.res.body.token))
        IN  r.res.status = 201 =>
              /\ r.users[r.res.body.user._id].tokens =
                     Append(Get(body, "tokens", <<>>), r.res.body.token)
              /\ a.ok /\ a.user = r.res.body.user._id

\* C19 as stated: a successful login never yields a token string the user's
\* list already holds (from the registration or an earlier login), so no token
\* list holds the same string twice.
C19_EverySessionOwnToken ==
    /\ \A u \in DOMAIN users : Cardinality(Range(users[u].tokens)) = Len(users[u].tokens)
    /\ \A body \in LoginBodies :
          LET r == postUsersLogin(body) IN
          r.res.status = 200 =>
              r.res.body.token \notin Range(users[r.res.body.user._id].tokens)

\* what the code does: a login's token differs from every token issued to the
\* user in an earlier second; within one second it is the same string
OwnTokenAcrossSeconds ==
    \A body \in LoginBodies :
        LET r == postUsersLogin(body) IN
        r.res.status = 200 =>
            \A i \in issued :
                i.user = r.res.body.user._id =>
                    (i.token = r.res.body.token <=> i.token.iat = now)

\* the body names a user path with a value that path's validators reject
UserValueRejected(body) ==
    \E p \in DOMAIN body : ~UserPathValid(p, UserSetter(p, body[p]))

\* the body carries a description that is empty once trimmed
TaskValueRejected(body) ==
    "description" \in DOMAIN body /\ TaskSetter("description", body.description) = ""

\* C20: a PATCH /users/me, or a PATCH /tasks/:id of a task of the caller, that
\* passed the guard, names only allowed fields and carries a value the schema
\* rejects is answered 400 and leaves every stored user and task as it was,
\* the valid fields of the same body included.
C20_RejectedValueWritesNothing ==
    \A header \in Headers :
        /\ \A body \in UserPatchBodies :
              LET r == patchUsersMe(header, body) IN
              (/\ r.res.ran
               /\ DOMAIN body \subseteq {"name", "email", "password", "age"}
               /\ UserValueRejected(body)) =>
                  /\ r.res.status = 400
                  /\ r.users = users
                  /\ r.tasks = tasks
        /\ \A id \in DOMAIN tasks, body \in TaskPatchBodies :
              LET r == patchTask(header, id, body) IN
              (/\ r.res.ran
               /\ tasks[id].owner = r.res.user
               /\ DOMAIN body \subseteq {"description", "completed"}
               /\ TaskValueRejected(body)) =>
                  /\ r.res.status = 400
                  /\ r.users = users
                  /\ r.tasks = tasks

C20_Witness ==
    /\ \E header \in Headers, body \in UserPatchBodies :
          LET r == patchUsersMe(header, body) IN
          /\ r.res.ran
          /\ DOMAIN body = {"name", "password"}
          /\ UserValueRejected(body)
          /\ Len(body.password) >= PasswordMinLength
          /\ users[r.res.user].name # UserSetter("name", body.name)
          /\ r.res.status = 400
    /\ \E header \in Headers, id \in DOMAIN tasks, body \in TaskPatchBodies :
          LET r == patchTask(header, id, body) IN
          /\ r.res.ran
          /\ tasks[id].owner = r.res.user
          /\ DOMAIN body = {"description", "completed"}
          /\ TaskValueRejected(body)
          /\ tasks[id].completed # body.completed
          /\ r.res.status = 400

\* the token lists of the users other than the caller are as they were
OthersTokensKept(header, r) ==
    \A u \in DOMAIN users :
        u # r.res.user => u \in DOMAIN r.users /\ r.users[u].tokens = users[u].tokens

\* every token list that is still stored is as it was
TokensKept(r) ==
    \A u \in DOMAIN r.users : u \in DOMAIN users /\ r.users[u].tokens = users[u].tokens

\* C21: the token list of a stored user is changed only by that user's own
\* registration, login, logout and logoutAll.  Profile reads and updates, avatar
\* upload and deletion and every task operation leave every token list as it
\* was, account deletion leaves the lists of the users that remain as they were,
\* and no request changes the token list of a user other than its caller.
C21_TokenListsOwnSessionOnly ==
    /\ OnEveryGuardedRoute(OthersTokensKept)
    /\ \A body \in RegisterBodies :
          \A u \in DOMAIN users : postUsers(body).users[u].tokens = users[u].tokens
    /\ \A body \in LoginBodies :
          LET r == postUsersLogin(body) IN
          \A u \in DOMAIN users :
              r.users[u].tokens # users[u].tokens =>
                  r.res.status = 200 /\ r.res.body.user._id = u
    /\ \A id \in 1..MaxUsers : TokensKept(getUsersAvatar(id))
    /\ \A header \in Headers :
          /\ TokensKept(getUsersMe(header))
          /\ \A body \in UserPatchBodies : TokensKept(patchUsersMe(header, body))
          /\ TokensKept(deleteUsersMe(header))
          /\ \A originalname \in AvatarFiles : TokensKept(postUsersMeAvatar(header, originalname))
          /\ TokensKept(deleteUsersMeAvatar(header))
          /\ \A body \in TaskCreateBodies : TokensKept(postTasks(header, body))
          /\ \A query \in TaskQueries : TokensKept(getTasks(header, query))
          /\ \A id \in 1..MaxTasks :
                /\ TokensKept(getTask(header, id))
                /\ \A body \in TaskPatchBodies : TokensKept(patchTask(header, id, body))
                /\ TokensKept(deleteTask(header, id))

C21_Witness ==
    \E header \in Headers, body \in UserPatchBodies, t \in DOMAIN tasks :
        LET p == patchUsersMe(header, body)
            a == postUsersMeAvatar(header, "me.png")
            k == patchTask(header, t, [completed |-> TRUE])
            u == p.res.user
        IN  /\ p.res.status = 200 /\ p.users[u] # users[u]
            /\ a.res.status = 200 /\ a.users[u].avatar # users[u].avatar
            /\ k.res.status = 200 /\ k.tasks # tasks
            /\ Len(users[u].tokens) > 1
            /\ \E v \in DOMAIN users : v # u /\ users[v].tokens # <<>>

\* C22: a DELETE /users/me whose cascade fails is answered 500 and leaves the
\* user stored, and whatever becomes of the cascade no DELETE /users/me ends
\* with the user gone, a 200 response and a task of that user still stored.
C22_CascadeFailureKeepsUser ==
    \A header \in Headers, fault \in Faults :
        LET r == deleteUsersMeOn(header, fault)
            u == r.res.user
        IN  r.res.ran =>
              /\ fault.fails => (r.res.status = 500 /\ r.users = users)
              /\ ~(/\ r.res.status = 200
                   /\ u \notin DOMAIN r.users
                   /\ \E t \in DOMAIN r.tasks : r.tasks[t].owner = u)
              /\ u \in DOMAIN r.users \/ r.res.status = 200

C22_Witness ==
    \E header \in Headers, fault \in Faults :
        LET r == deleteUsersMeOn(header, fault)
            u == r.res.user
        IN  /\ fault.fails
            /\ r.res.status = 500
            /\ r.tasks # tasks
            /\ \E t \in DOMAIN r.tasks : r.tasks[t].owner = u
            /\ u \in DOMAIN r.users

\* the users other than id whose stored email is this one once trimmed and lowercased
HoldersOf(email, id) ==
    {u \in DOMAIN users : u # id /\ ToLowerCase(Trim(users[u].email)) = ToLowerCase(Trim(email))}

\* C23: no two stored users have the same email after trimming and lowercasing,
\* and a POST /users or a PATCH /users/me that passed the guard whose email,
\* trimmed and lowercased, is held by another user is answered 400 and leaves
\* every stored user and task as it was.
C23_EmailUnique ==
    /\ \A u \in DOMAIN users : HoldersOf(users[u].email, u) = {}
    /\ \A body \in RegisterBodies :
          LET r == postUsers(body) IN
          HoldersOf(body.email, 0) # {} =>
              r.res.status = 400 /\ r.users = users /\ r.tasks = tasks
    /\ \A header \in Headers, body \in UserPatchBodies :
          LET r == patchUsersMe(header, body) IN
          (/\ r.res.ran
           /\ "email" \in DOMAIN body
           /\ HoldersOf(body.email, r.res.user) # {}) =>
              r.res.status = 400 /\ r.users = users /\ r.tasks = tasks

C23_Witness ==
    /\ \E body \in RegisterBodies :
          /\ HoldersOf(body.email, 0) # {}
          /\ \A u \in DOMAIN users : users[u].email # body.email
          /\ UserPathValid("password", UserSetter("password", body.password))
          /\ postUsers(body).res.status = 400
    /\ \E header \in Headers, body \in UserPatchBodies :
          LET r == patchUsersMe(header, body) IN
          /\ r.res.ran
          /\ DOMAIN body = {"email"}
          /\ HoldersOf(body.email, r.res.user) # {}
          /\ r.res.status = 400

\* C24 as stated: with logins and logoutAlls of an account overlapping, a token
\* whose logoutAll has been answered 200 is in no stored token list and is
\* rejected by the guard from then on.
C24_RevokedStaysOut ==
    \A token \in loggedOutAll :
        /\ \A u \in DOMAIN users : token \notin Range(users[u].tokens)
        /\ ~auth(Bearer(token)).ok

\* what the code does: a request that read the account before the logoutAll
\* never writes a revoked token back (its save fails on the stale __v); a
\* revoked token string is stored again only by the save of a login that read
\* the account after the logoutAll and signed the same string
RevokedBackOnlyByLaterLogin ==
    [][\A token \in loggedOutAll, u \in DOMAIN users :
          (/\ token \notin Range(users[u].tokens)
           /\ u \in DOMAIN users'
           /\ token \in Range(users'[u].tokens)) =>
              \E i \in DOMAIN inflight :
                  /\ inflight[i].op = "login"
                  /\ ~inflight[i].stale
                  /\ inflight[i].doc._id = u
                  /\ inflight[i].token = token]_vars

\* C25 as stated: every stored task's owner is a stored user, also when a
\* POST /tasks that has passed the guard overlaps a DELETE /users/me of its
\* caller.
C25_OwnersExist ==
    \A t \in DOMAIN tasks : tasks[t].owner \in DOMAIN users

\* C26 as stated: once a DELETE /users/me of a user has been answered 200,
\* every token issued to that user before it is rejected by the guard, although
\* its signature verifies.
C26_DeletedUsersTokensRejected ==
    \A token \in deletedTokens :
        /\ JwtVerify(token, JWT_SECRET).ok
        /\ ~auth(Bearer(token)).ok

\* what the code does: a token of a deleted user is rejected for as long as no
\* user is stored under the _id it names, and it is accepted again only when
\* it is in the list of a user registered under that _id anew
DeletedUsersTokensRejectedWhileGone ==
    \A token \in deletedTokens :
        /\ token._id \notin DOMAIN users => ~auth(Bearer(token)).ok
        /\ auth(Bearer(token)).ok =>
              /\ "_id" \in DOMAIN registered[token._id]
              /\ token \in Range(users[token._id].tokens)

\* no stored user has the body's email
UnknownEmail(body) ==
    \A u \in DOMAIN users : users[u].email # ToLowerCase(Trim(body.email))

\* a stored user has the body's email, and the body's password is not the
\* plaintext last accepted for that user
WrongPassword(body) ==
    \E u \in DOMAIN users :
        /\ users[u].email = ToLowerCase(Trim(body.email))
        /\ plain[u] # body.password
        /\ Trim(plain[u]) # body.password

\* C27: a POST /users/login with an email no user has and one with a user's
\* email and a wrong password get the same response, 400 with an empty body,
\* and both leave every stored user, every token list and every task as it was.
C27_LoginFailuresAlike ==
    \A unknown \in LoginBodies, wrong \in LoginBodies :
        (UnknownEmail(unknown) /\ WrongPassword(wrong)) =>
            LET r1 == postUsersLogin(unknown)
                r2 == postUsersLogin(wrong)
            IN  /\ r1.res = r2.res
                /\ r1.res.status = 400 /\ r1.res.body = EmptyBody
                /\ r1.users = users /\ r1.tasks = tasks
                /\ r2.users = users /\ r2.tasks = tasks

C27_Witness ==
    \E unknown \in LoginBodies, wrong \in LoginBodies :
        /\ UnknownEmail(unknown) /\ WrongPassword(wrong)
        /\ unknown.password = wrong.password
        /\ \E u \in DOMAIN users : users[u].tokens # <<>>
        /\ postUsersLogin(unknown).res.status = 400
        /\ postUsersLogin(wrong).res.status = 400
====
